---- MODULE Spec2Model ----
(***************************************************************************)
(* A model of the photo-restoration front end: the React component App     *)
(* (src/App.tsx) and the Gateway service functions generateRestorationPlan,*)
(* generateStepPrompt and executeImageStep (services/geminiService).       *)
(*                                                                         *)
(* The state is the component's committed React state, the closure and the *)
(* locals of the one asynchronous function handleRestore, the FileReaders  *)
(* that are still reading, and the Gateway requests that are in flight.    *)
(* One action is one event handler, or one continuation of handleRestore   *)
(* between two suspension points (await), with all its state updates.      *)
(***************************************************************************)
EXTENDS Integers, Sequences, FiniteSets, TLC

\* ---------------------------------------------------------------- bounds

\* The longest plan the Gateway returns in the model.
MaxPlanLen == 2

\* The most preview FileReaders that are reading at the same time.
MaxPendingReads == 1

\* ---------------------------------------------------------------- values

\* JavaScript's null and undefined.
Null == <<"null">>

Undefined == <<"undefined">>

\* A File: its media type and its content (as base64 text, a string).
File(type, content) == <<"File", type, content>>

Files == { File("image/png", <<"a">>), File("image/jpeg", <<"b">>) }

FileType(f) == f[2]

FileContent(f) == f[3]

\* A string is a sequence of tokens; the comma is a token of its own, so that
\* split(',') is computed and not assumed.
DataURL(mime, base64Data) == <<"data:", mime, ";base64", ",">> \o base64Data

\* FileReader.readAsDataURL: reader.result at onloadend, null when the read failed.
ReadAsDataURL(f, ok) == IF ok THEN DataURL(FileType(f), FileContent(f)) ELSE Null

\* The index of the first comma of s from position i on, Len(s) + 1 when none.
RECURSIVE CommaFrom(_, _)
CommaFrom(s, i) ==
    IF i > Len(s) THEN Len(s) + 1
    ELSE IF s[i] = "," THEN i
    ELSE CommaFrom(s, i + 1)

\* s.split(',')[1]: the text between the first comma and the second one;
\* undefined when s holds no comma.
SplitComma1(s) ==
    LET c1 == CommaFrom(s, 1)
        c2 == CommaFrom(s, c1 + 1)
    IN  IF c1 > Len(s) THEN Undefined ELSE SubSeq(s, c1 + 1, c2 - 1)

\* The texts of the model: sequences of characters.
RECURSIVE TrimStart(_)
TrimStart(s) == IF s # <<>> /\ Head(s) = " " THEN TrimStart(Tail(s)) ELSE s

RECURSIVE TrimEnd(_)
TrimEnd(s) ==
    IF s # <<>> /\ s[Len(s)] = " " THEN TrimEnd(SubSeq(s, 1, Len(s) - 1)) ELSE s

\* String.prototype.trim
Trim(s) == TrimEnd(TrimStart(s))

\* What the user types into the instructions textarea.
UserPrompts == { <<>>, <<"u">> }

\* ------------------------------------------------------- error messages

MsgNoApiKey == <<"API_KEY environment variable not set">>

MsgBadPlan == <<"Could not generate a valid restoration plan. The AI's response was not in the expected format.">>

MsgNoImage == <<"Image generation failed or did not return an image.">>

MsgUnknown == <<"An unknown error occurred during the restoration process.">>

\* The TypeError of reading a property of null or undefined.
MsgTypeError == <<"TypeError: Cannot read properties of null or undefined">>

\* The messages of the errors the Gateway client rejects with; the empty
\* string is one of them.
GatewayErrors == { <<>>, <<"gateway error">> }

\* A variant without the fallback: setError(e.message).
MessageAsIs(message) == message

\* e.message || 'An unknown error occurred ...'
MessageOrUnknown(message) == IF message = <<>> THEN MsgUnknown ELSE message

\* -------------------------------------------------------------- Gateway

\* InlineDataPart: { inlineData: { data, mimeType } }
InlineDataPart(data, mimeType) == [data |-> data, mimeType |-> mimeType]

\* fileToGenerativePart, once its FileReader has read the file.
fileToGenerativePart(file) ==
    InlineDataPart(SplitComma1(ReadAsDataURL(file, TRUE)), FileType(file))

\* base64ToGenerativePart(base64Data, mimeType = 'image/png'); a TypeError when
\* base64Data is null.
Base64Throws(base64Data) == base64Data = Null \/ base64Data = Undefined

base64ToGenerativePart(base64Data) ==
    InlineDataPart(SplitComma1(base64Data), "image/png")

\* PlanStep { step, goal }: the steps a plan of the Gateway is made of. The
\* Gateway orders and repeats them as it likes.
PlanSteps == { [step |-> 1, goal |-> "Remove scratches"], [step |-> 2, goal |-> "Colorize"] }

RECURSIVE SeqsUpTo(_, _)
SeqsUpTo(S, n) ==
    IF n = 0 THEN { <<>> }
    ELSE LET shorter == SeqsUpTo(S, n - 1)
         IN  shorter \cup { Append(q, x) : q \in { r \in shorter : Len(r) = n - 1 }, x \in S }

\* A JSON document: an array of plan steps, or something that is no array.
JsonArray(elements) == <<"array", elements>>

JsonObject == <<"object">>

\* response.text of the planning call: undefined, text that is no JSON, or JSON.
NotJson == <<"not json">>

PlanTexts ==
    { Undefined, NotJson, JsonObject } \cup { JsonArray(q) : q \in SeqsUpTo(PlanSteps, MaxPlanLen) }

\* JSON.parse: throws a SyntaxError on undefined and on text that is no JSON.
JsonParseThrows(text) == text = Undefined \/ text = NotJson

\* A variant without the length test: Array.isArray(plan).
IsArrayOnly(value) == value[1] = "array"

\* Array.isArray(plan) && plan.length > 0
IsNonEmptyArray(value) == value[1] = "array" /\ Len(value[2]) > 0

\* response.text of the prompt call.
PromptTexts == { Undefined, <<>>, <<" ">>, <<" ", "p", " ">> }

\* The first part of the edit response: absent, a text part, or inlineData.
NoPart == <<"no part">>

TextPart == <<"text part">>

ImagePart(base64Data) == <<"inlineData", base64Data>>

EditParts == { NoPart, TextPart, ImagePart(<<"x">>), ImagePart(<<"y">>) }

\* firstPart && 'inlineData' in firstPart
HasInlineData(part) == part[1] = "inlineData"

\* A Gateway call either rejects with an error or resolves with a response.
Rejected(message) == <<"rejected", message>>

Resolved(response) == <<"resolved", response>>

IsRejected(outcome) == outcome[1] = "rejected"

Outcomes(responses) ==
    { Rejected(m) : m \in GatewayErrors } \cup { Resolved(r) : r \in responses }

\* A request to ai.models.generateContent; step is the index of the plan step
\* it is issued for (0-based, -1 for the planning call).
Request(op, step, image, text) == [op |-> op, step |-> step, image |-> image, text |-> text]

\* The events of the current run, in the order the code produces them:
\*   "call"    a request is handed to the Gateway (data: the request)
\*   "return"  the Gateway answers it (data: the outcome)
\*   "throw"   an exception reaches handleRestore's catch (data: its message)
\*   "publish" setRestorationSteps (data: the new entry)
\*   "done"    handleRestore returns from line 125
Event(ev, op, step, data) == [ev |-> ev, op |-> op, step |-> step, data |-> data]

\* ---------------------------------------------------------------- state

VARIABLES
    imageFile,          \* useState<File | null>
    imagePreview,       \* useState<string | null>
    userPrompt,         \* useState<string>
    status,             \* useState<AppStatus>
    error,              \* useState<string | null>
    restorationSteps,   \* useState<RestorationStep[]>
    progressMessage,    \* useState<string>
    aiRef,              \* useRef<GoogleGenAI | null>: TRUE once the client exists
    apiKey,             \* process.env.API_KEY is set
    readers,            \* the preview FileReaders still reading: file -> how many
    pc,                 \* where handleRestore is suspended
    closure,            \* imageFile, userPrompt, imagePreview as handleRestore captured them
    plan,               \* const plan
    index,              \* the loop's index
    currentImageBase64, \* let currentImageBase64
    stepPrompt,         \* const stepPrompt
    completedSteps,     \* const completedSteps
    inflight,           \* the Gateway requests that have not been answered, oldest first
    events              \* the events of the current run, oldest first

uiVars == <<imageFile, imagePreview, userPrompt, status, error, restorationSteps, progressMessage>>

runVars == <<pc, closure, plan, index, currentImageBase64, stepPrompt, completedSteps>>

vars == <<imageFile, imagePreview, userPrompt, status, error, restorationSteps,
          progressMessage, aiRef, apiKey, readers, pc, closure, plan, index,
          currentImageBase64, stepPrompt, completedSteps, inflight, events>>

\* The locals of a handleRestore that is not running.
NoClosure == [imageFile |-> Null, userPrompt |-> <<>>, imagePreview |-> Null]

PendingReads == LET RECURSIVE Sum(_)
                    Sum(S) == IF S = {} THEN 0
                              ELSE LET f == CHOOSE f \in S : TRUE
                                   IN  readers[f] + Sum(S \ {f})
                IN  Sum(Files)

Init ==
    /\ imageFile = Null
    /\ imagePreview = Null
    /\ userPrompt = <<>>
    /\ status = "idle"
    /\ error = Null
    /\ restorationSteps = <<>>
    /\ progressMessage = <<>>
    /\ aiRef = FALSE
    /\ apiKey \in BOOLEAN
    /\ readers = [f \in Files |-> 0]
    /\ pc = "none"
    /\ closure = NoClosure
    /\ plan = <<>>
    /\ index = 0
    /\ currentImageBase64 = Null
    /\ stepPrompt = <<>>
    /\ completedSteps = <<>>
    /\ inflight = <<>>
    /\ events = <<>>

\* const isProcessing = status === 'planning' || status === 'restoring'
isProcessing == status = "planning" \/ status = "restoring"

\* The locals of handleRestore stop existing when it returns.
ReturnLocals ==
    /\ pc' = "none"
    /\ closure' = NoClosure
    /\ plan' = <<>>
    /\ index' = 0
    /\ currentImageBase64' = Null
    /\ stepPrompt' = <<>>
    /\ completedSteps' = <<>>

\* A variant of resetState that leaves the progress message as it is.
ProgressKept == progressMessage

\* A variant of resetState that leaves the error message as it is.
ErrorKept == error

\* The four state updates of resetState, as the values they set.
ResetStatus == "idle"

ResetError == Null

ResetSteps == <<>>

ResetProgress == <<>>

\* ------------------------------------------------------------ user events

\* A variant that leaves the file input enabled during a run.
FileInputNeverDisabled == FALSE

\* <input id="file-upload" ... disabled={isProcessing} />
FileInputDisabled == isProcessing

\* <textarea id="user-prompt" ... disabled={isProcessing}>
TextareaDisabled == isProcessing

\* handleFileChange: the file input's change event. The input is disabled
\* while isProcessing; file is Null when the dialog was left without a file.
handleFileChange(file) ==
    /\ ~FileInputDisabled
    /\ IF file = Null
       THEN UNCHANGED vars
       ELSE /\ PendingReads < MaxPendingReads
            /\ imageFile' = file
            /\ readers' = [readers EXCEPT ![file] = @ + 1]
            /\ status' = ResetStatus
            /\ error' = ResetError
            /\ restorationSteps' = ResetSteps
            /\ progressMessage' = ResetProgress
            /\ events' = <<>>
            /\ UNCHANGED <<imagePreview, userPrompt, aiRef, apiKey, runVars, inflight>>

\* reader.onloadend of a preview FileReader: setImagePreview(reader.result).
\* The read ends with the data URL, or with null when it failed.
ReaderLoadEnd(file, ok) ==
    /\ readers[file] > 0
    /\ readers' = [readers EXCEPT ![file] = @ - 1]
    /\ imagePreview' = ReadAsDataURL(file, ok)
    /\ UNCHANGED <<imageFile, userPrompt, status, error, restorationSteps, progressMessage,
                   aiRef, apiKey, runVars, inflight, events>>

\* The textarea's onChange: setUserPrompt(e.target.value); disabled while isProcessing.
SetUserPrompt(text) ==
    /\ ~TextareaDisabled
    /\ text # userPrompt
    /\ userPrompt' = text
    /\ UNCHANGED <<imageFile, imagePreview, status, error, restorationSteps, progressMessage,
                   aiRef, apiKey, readers, runVars, inflight, events>>

\* A variant that renders the Start Over button in every status.
StartOverAlwaysShown == TRUE

\* The Start Over button is rendered when status is 'done' or 'error'.
StartOverShown == status = "done" \/ status = "error"

\* handleStartOver
handleStartOver ==
    /\ StartOverShown
    /\ imageFile' = Null
    /\ imagePreview' = Null
    /\ userPrompt' = <<>>
    /\ status' = ResetStatus
    /\ error' = ResetError
    /\ restorationSteps' = ResetSteps
    /\ progressMessage' = ResetProgress
    /\ events' = <<>>
    /\ UNCHANGED <<aiRef, apiKey, readers, runVars, inflight>>

\* ---------------------------------------------------------- handleRestore

ProgressPlanning == <<"Generating restoration plan...">>

ProgressPrompt(i, totalSteps, goal) ==
    <<"Step", i + 1, "/", totalSteps, "Generating prompt for", goal>>

ProgressApply(i, totalSteps, goal) ==
    <<"Step", i + 1, "/", totalSteps, "Applying AI restoration for", goal>>

ProgressComplete == <<"Restoration complete!">>

\* A variant that renders the Restore button whenever a file is selected.
RestoreWheneverFile == imageFile # Null

\* The Restore button is rendered when status === 'idle' && imageFile, and is
\* disabled when isProcessing || !imageFile.
RestoreEnabled == status = "idle" /\ imageFile # Null /\ ~(isProcessing \/ imageFile = Null)

\* A variant of getAiClient that makes the client without looking at the key.
GetAiClientNeverThrows == FALSE

\* getAiClient throws when there is no client yet and no API key to make one.
GetAiClientThrows == ~aiRef /\ ~apiKey

\* let currentImageBase64 = imagePreview!
InitialImage(captured) == captured.imagePreview

\* A variant that walks the plan from its last step to its first.
PlanStepReversed(thePlan, i) == thePlan[Len(thePlan) - i]

\* for (const [index, planStep] of plan.entries())
PlanStepAt(thePlan, i) == thePlan[i + 1]

\* The loop goes on while the plan has an entry at index i.
HasStep(thePlan, i) == i < Len(thePlan)

\* const newStep = { ...planStep, prompt, beforeImage, afterImage }
NewStep(planStep, prompt, before, after) ==
    [step |-> planStep.step, goal |-> planStep.goal, prompt |-> prompt,
     beforeImage |-> before, afterImage |-> after]

\* A variant that publishes the newest step alone: setRestorationSteps([newStep]).
PublishedLastOnly(completed) == <<completed[Len(completed)]>>

\* setRestorationSteps([...completedSteps])
Published(completed) == completed

\* A variant that never advances the current image.
NextImageStale(current, new) == current

\* currentImageBase64 = newImageBase64
NextImage(current, new) == new

\* The requests in flight without the i-th one.
RemoveAt(requests, i) == SubSeq(requests, 1, i - 1) \o SubSeq(requests, i + 1, Len(requests))

\* catch (e): setError(e.message || ...); setStatus('error'); the function returns.
Catch(message) ==
    /\ error' = MessageOrUnknown(message)
    /\ status' = "error"
    /\ ReturnLocals

\* A variant of handleRestore without its first line.
NoImageIgnored == FALSE

\* if (!imageFile) return;
NoImage == imageFile = Null

\* A call of handleRestore, up to the first await: the early return, or
\* resetState, status 'planning', getAiClient, and generateRestorationPlan
\* up to its FileReader's read.
handleRestoreCall ==
    IF NoImage
    THEN UNCHANGED vars
    ELSE /\ restorationSteps' = ResetSteps
         /\ progressMessage' = ProgressPlanning
         /\ IF GetAiClientThrows
            THEN /\ Catch(MsgNoApiKey)
                 /\ events' = <<Event("throw", "config", -1, MsgNoApiKey)>>
                 /\ UNCHANGED aiRef
            ELSE /\ aiRef' = TRUE
                 /\ status' = "planning"
                 /\ error' = ResetError
                 /\ pc' = "planRead"
                 /\ closure' = [imageFile |-> imageFile, userPrompt |-> userPrompt,
                                imagePreview |-> imagePreview]
                 /\ events' = <<>>
                 /\ UNCHANGED <<plan, index, currentImageBase64, stepPrompt, completedSteps>>
         /\ UNCHANGED <<imageFile, imagePreview, userPrompt, apiKey, readers, inflight>>

\* The click on the Restore button: onClick={handleRestore}.
handleRestore ==
    /\ RestoreEnabled
    /\ handleRestoreCall

\* reader.onloadend in fileToGenerativePart. When the read failed reader.result
\* is null, the callback throws and the promise is never resolved.
PlanFileRead(ok) ==
    /\ pc = "planRead"
    /\ IF ok
       THEN LET request == Request("plan", -1, fileToGenerativePart(closure.imageFile),
                                   <<closure.userPrompt>>)
            IN  /\ inflight' = Append(inflight, request)
                /\ events' = Append(events, Event("call", "plan", -1, request))
                /\ pc' = "awaitPlan"
       ELSE /\ pc' = "hung"
            /\ UNCHANGED <<inflight, events>>
    /\ UNCHANGED <<uiVars, aiRef, apiKey, readers, closure, plan, index,
                   currentImageBase64, stepPrompt, completedSteps>>

\* The for loop from index i on, up to the next await: lines 105-106 and
\* generateStepPrompt up to its Gateway call, which base64ToGenerativePart
\* precedes; or, past the plan's last step, lines 124-125. st is the status,
\* completed the steps done, evs and flying the events and requests so far.
Loop(st, thePlan, i, image, completed, evs, flying) ==
    IF HasStep(thePlan, i)
    THEN LET planStep == PlanStepAt(thePlan, i)
             request == Request("prompt", i, base64ToGenerativePart(image),
                                <<planStep.goal, closure.userPrompt>>)
         IN  /\ status' = st
             /\ plan' = thePlan
             /\ index' = i
             /\ currentImageBase64' = image
             /\ completedSteps' = completed
             /\ progressMessage' = ProgressPrompt(i, Len(thePlan), planStep.goal)
             /\ IF Base64Throws(image)
                THEN /\ pc' = "promptThrown"
                     /\ inflight' = flying
                     /\ events' = evs
                ELSE /\ pc' = "awaitPrompt"
                     /\ inflight' = Append(flying, request)
                     /\ events' = Append(evs, Event("call", "prompt", i, request))
             /\ UNCHANGED <<closure, stepPrompt>>
    ELSE /\ status' = "done"
         /\ progressMessage' = ProgressComplete
         /\ ReturnLocals
         /\ inflight' = flying
         /\ events' = Append(evs, Event("done", "run", i, Null))

\* The planning call is answered: the rest of generateRestorationPlan, then
\* lines 99-106 of handleRestore.
PlanResponse(outcome) ==
    /\ pc = "awaitPlan"
    /\ \E r \in 1..Len(inflight) :
        /\ inflight[r].op = "plan"
        /\ LET flying == RemoveAt(inflight, r)
               text == outcome[2]
               evs == Append(events, Event("return", "plan", -1, outcome))
           IN  IF IsRejected(outcome)
               THEN /\ Catch(outcome[2])
                    /\ events' = Append(evs, Event("throw", "plan", -1, outcome[2]))
                    /\ inflight' = flying
                    /\ UNCHANGED <<restorationSteps, progressMessage>>
               ELSE IF JsonParseThrows(text) \/ ~IsNonEmptyArray(text)
               THEN /\ Catch(MsgBadPlan)
                    /\ events' = Append(evs, Event("throw", "plan", -1, MsgBadPlan))
                    /\ inflight' = flying
                    /\ UNCHANGED <<restorationSteps, progressMessage>>
               ELSE /\ Loop("restoring", text[2], 0, InitialImage(closure), <<>>, evs, flying)
                    /\ UNCHANGED <<error, restorationSteps>>
    /\ UNCHANGED <<imageFile, imagePreview, userPrompt, aiRef, apiKey, readers>>

\* The promise of generateStepPrompt was rejected before any Gateway call:
\* base64ToGenerativePart threw.
PromptThrown ==
    /\ pc = "promptThrown"
    /\ Catch(MsgTypeError)
    /\ events' = Append(events, Event("throw", "prompt", index, MsgTypeError))
    /\ UNCHANGED <<imageFile, imagePreview, userPrompt, restorationSteps, progressMessage,
                   aiRef, apiKey, readers, inflight>>

\* The prompt call is answered: response.text.trim(), then lines 108-109 and
\* executeImageStep up to its Gateway call. (Its base64ToGenerativePart is
\* given the image generateStepPrompt was given, and so does not throw.)
PromptResponse(outcome) ==
    /\ pc = "awaitPrompt"
    /\ \E r \in 1..Len(inflight) :
        /\ inflight[r].op = "prompt"
        /\ LET flying == RemoveAt(inflight, r)
               text == outcome[2]
               planStep == PlanStepAt(plan, index)
               evs == Append(events, Event("return", "prompt", index, outcome))
           IN  IF IsRejected(outcome) \/ text = Undefined
               THEN LET message == IF IsRejected(outcome) THEN outcome[2] ELSE MsgTypeError
                    IN  /\ Catch(message)
                        /\ events' = Append(evs, Event("throw", "prompt", index, message))
                        /\ inflight' = flying
                        /\ UNCHANGED progressMessage
               ELSE LET edit == Request("edit", index,
                                        base64ToGenerativePart(currentImageBase64),
                                        <<Trim(text)>>)
                    IN  /\ stepPrompt' = Trim(text)
                        /\ progressMessage' = ProgressApply(index, Len(plan), planStep.goal)
                        /\ pc' = "awaitEdit"
                        /\ inflight' = Append(flying, edit)
                        /\ events' = Append(evs, Event("call", "edit", index, edit))
                        /\ UNCHANGED <<status, error, closure, plan, index,
                                       currentImageBase64, completedSteps>>
    /\ UNCHANGED <<imageFile, imagePreview, userPrompt, restorationSteps, aiRef, apiKey, readers>>

\* The edit call is answered: the rest of executeImageStep, lines 111-121,
\* and then the next iteration up to its await, or lines 124-125.
EditResponse(outcome) ==
    /\ pc = "awaitEdit"
    /\ \E r \in 1..Len(inflight) :
        /\ inflight[r].op = "edit"
        /\ LET flying == RemoveAt(inflight, r)
               part == outcome[2]
               evs == Append(events, Event("return", "edit", index, outcome))
           IN  IF IsRejected(outcome) \/ ~HasInlineData(part)
               THEN LET message == IF IsRejected(outcome) THEN outcome[2] ELSE MsgNoImage
                    IN  /\ Catch(message)
                        /\ events' = Append(evs, Event("throw", "edit", index, message))
                        /\ inflight' = flying
                        /\ UNCHANGED <<restorationSteps, progressMessage>>
               ELSE LET newImageBase64 == DataURL("image/png", part[2])
                        newStep == NewStep(PlanStepAt(plan, index), stepPrompt,
                                           currentImageBase64, newImageBase64)
                        completed == Append(completedSteps, newStep)
                    IN  /\ restorationSteps' = Published(completed)
                        /\ Loop(status, plan, index + 1,
                                NextImage(currentImageBase64, newImageBase64), completed,
                                Append(evs, Event("publish", "steps", index, newStep)), flying)
                        /\ UNCHANGED error
    /\ UNCHANGED <<imageFile, imagePreview, userPrompt, aiRef, apiKey, readers>>

\* ------------------------------------------------------------ the system

Next ==
    \/ \E file \in Files \cup {Null} : handleFileChange(file)
    \/ \E file \in Files, ok \in BOOLEAN : ReaderLoadEnd(file, ok)
    \/ \E text \in UserPrompts : SetUserPrompt(text)
    \/ handleStartOver
    \/ handleRestore
    \/ \E ok \in BOOLEAN : PlanFileRead(ok)
    \/ \E outcome \in Outcomes(PlanTexts) : PlanResponse(outcome)
    \/ PromptThrown
    \/ \E outcome \in Outcomes(PromptTexts) : PromptResponse(outcome)
    \/ \E outcome \in Outcomes(EditParts) : EditResponse(outcome)

Spec == Init /\ [][Next]_vars

\* The continuations of handleRestore: what a suspended run waits for arrives.
RunStep ==
    \/ \E ok \in BOOLEAN : PlanFileRead(ok)
    \/ \E outcome \in Outcomes(PlanTexts) : PlanResponse(outcome)
    \/ PromptThrown
    \/ \E outcome \in Outcomes(PromptTexts) : PromptResponse(outcome)
    \/ \E outcome \in Outcomes(EditParts) : EditResponse(outcome)

\* Every FileReader ends its read, every Gateway call is answered and every
\* settled promise is continued.
FairSpec == Spec /\ WF_vars(RunStep)

\* handleRestore called in status 'idle' by a caller that does not look at
\* imageFile (the button is rendered only with a file).
CallRestore ==
    /\ status = "idle"
    /\ handleRestoreCall

NextCall == Next \/ CallRestore

\* The application with such a caller beside the user interface.
SpecCall == Init /\ [][NextCall]_vars

\* ----------------------------------------------------------- the claims

\* The positions of the run's events of one kind.
EventsOf(ev) == { i \in DOMAIN events : events[i].ev = ev }

\* What the Gateway answered is unusable: the call was rejected, the plan is
\* no non-empty array, the prompt response has no text, the edit response
\* has no image.
Unusable(op, outcome) ==
    \/ outcome[1] = "rejected"
    \/ op = "plan" /\ ~(outcome[2][1] = "array" /\ outcome[2][2] # <<>>)
    \/ op = "prompt" /\ outcome[2] = Undefined
    \/ op = "edit" /\ outcome[2][1] # "inlineData"

\* The Gateway calls of the run that failed.
FailedCalls == { i \in EventsOf("return") : Unusable(events[i].op, events[i].data) }

\* The planning call of the run has returned a plan of at least one step.
HasRunPlan ==
    \E i \in EventsOf("return") : events[i].op = "plan" /\ ~Unusable("plan", events[i].data)

\* That plan.
RunPlan ==
    LET i == CHOOSE i \in EventsOf("return") : events[i].op = "plan"
    IN  events[i].data[2][2]

\* handleRestore has returned from a run that received a plan.
RunWithPlanEnded == pc = "none" /\ HasRunPlan

Least(S) == CHOOSE i \in S : \A j \in S : i <= j

\* C1: a run with a plan of N >= 1 steps ends 'done' with N published entries
\* when no Gateway call fails, and ends 'error' with exactly K < N entries
\* when the first failing call belongs to plan step K + 1.
C1_EntriesCountCalls ==
    RunWithPlanEnded =>
        IF FailedCalls = {}
        THEN status = "done" /\ Len(restorationSteps) = Len(RunPlan)
        ELSE LET K == events[Least(FailedCalls)].step
             IN  status = "error" /\ Len(restorationSteps) = K /\ K < Len(RunPlan)

C3_FirstBeforeIsUploaded ==
    restorationSteps # <<>> =>
        LET sent == events[1].data.image
        IN  restorationSteps[1].beforeImage = DataURL(sent.mimeType, sent.data)

\* The status transitions the state machine lists.
ListedTransitions ==
    { <<"idle", "planning">>, <<"planning", "restoring">>, <<"restoring", "done">>,
      <<"planning", "error">>, <<"restoring", "error">>,
      <<"done", "idle">>, <<"error", "idle">> }

\* The click on Restore that ends in the catch block before any await:
\* getAiClient threw, and 'planning' was set and replaced within the handler.
ConfigErrorStep ==
    /\ status = "idle"
    /\ status' = "error"
    /\ ~apiKey
    /\ error' = MsgNoApiKey
    /\ events' = <<Event("throw", "config", -1, MsgNoApiKey)>>

\* C4 as stated: status changes only along the listed transitions.
C4_OnlyListedTransitions ==
    [][status' # status => <<status, status'>> \in ListedTransitions]_vars

\* C4 as amended: status changes only along the listed transitions, or from
\* idle to error when the click on Restore finds no API key; 'restoring' is
\* entered only with a received plan ('done' is entered only from 'restoring').
C4_TransitionsOrConfigError ==
    [][status' # status =>
        /\ <<status, status'>> \in ListedTransitions \/ ConfigErrorStep
        /\ status' = "restoring" => HasRunPlan'
        /\ status' = "done" => status = "restoring"]_vars

C4_Witness ==
    /\ status = "done"
    /\ HasRunPlan
    /\ events[Len(events)].ev = "done"

\* The planning call of the run failed or returned no non-empty array.
PlanningFailed ==
    \E i \in EventsOf("return") : events[i].op = "plan" /\ Unusable("plan", events[i].data)

\* C5: when the planning call fails or returns what is no non-empty array,
\* the run ends 'error' with no published entry and no prompt or edit call.
C5_PlanningFailure ==
    PlanningFailed =>
        /\ status = "error"
        /\ restorationSteps = <<>>
        /\ pc = "none"
        /\ inflight = <<>>
        /\ \A j \in EventsOf("call") : events[j].op = "plan"

C5_Witness ==
    /\ PlanningFailed
    /\ \E i \in EventsOf("return") : events[i].data = Resolved(JsonArray(<<>>))

\* The events this step adds to the run's events.
NewEvents == IF Len(events') > Len(events) THEN (Len(events) + 1)..Len(events') ELSE {}

\* In this step a Gateway call returns and has failed.
CallFailsStep ==
    \E i \in NewEvents : events'[i].ev = "return" /\ Unusable(events'[i].op, events'[i].data)

\* C6: the step in which a Gateway call fails issues no further call, leaves
\* the published entries as they are, sets status 'error' and a non-empty
\* error message, and ends the run; from 'error' nothing but a reset goes on.
C6_AbortOnFailure ==
    [][/\ CallFailsStep =>
            /\ status' = "error"
            /\ error' # Null /\ error' # <<>>
            /\ restorationSteps' = restorationSteps
            /\ inflight' = <<>>
            /\ pc' = "none"
            /\ \A i \in NewEvents : events'[i].ev # "call"
       /\ status = "error" =>
            /\ pc' = "none" /\ inflight' = <<>>
            /\ status' = "error" \/ status' = "idle"
            /\ status' = "error" =>
                 /\ restorationSteps' = restorationSteps
                 /\ error' = error
                 /\ events' = events]_vars

C6_Witness ==
    /\ status = "error"
    /\ Len(restorationSteps) = 1
    /\ events[Len(events) - 1].data = Resolved(NoPart)

\* A step that calls resetState from the user interface.
ResetStep == handleStartOver \/ \E file \in Files : handleFileChange(file)

Cleared ==
    /\ status = "idle"
    /\ error = Null
    /\ restorationSteps = <<>>
    /\ progressMessage = <<>>

\* C7: a reset (Start Over, or the selection of a file) leaves status 'idle',
\* no published entry, no error message and an empty progress message; a
\* reset of a state that is so cleared changes none of the four.
C7_Reset ==
    [][ResetStep =>
        /\ Cleared'
        /\ Cleared => UNCHANGED <<status, error, restorationSteps, progressMessage>>]_vars

C7_Witness ==
    /\ Cleared
    /\ aiRef
    /\ imageFile = Null

\* C8: at most one Gateway request is in flight, and only during a run; a
\* run starts only when none is in progress.
C8_SingleFlight ==
    /\ inflight = <<>>
    /\ [][/\ Len(inflight') <= 1
          /\ inflight' # <<>> => isProcessing' /\ pc' \in {"awaitPlan", "awaitPrompt", "awaitEdit"}
          /\ handleRestore => ~isProcessing /\ pc = "none" /\ inflight = <<>>]_vars

C8_Witness ==
    /\ Len(inflight) = 1
    /\ inflight[1].op = "edit"
    /\ inflight[1].step = 1

\* C9: the k-th published entry carries the step and the goal of the k-th
\* plan step; an entry is published right after its step's edit call has
\* returned, and every call for a later step is issued after that.
C9_PlanOrder ==
    /\ restorationSteps # <<>> => HasRunPlan
    /\ Len(restorationSteps) = Cardinality(EventsOf("publish"))
    /\ \A k \in 1..Len(restorationSteps) :
        /\ k <= Len(RunPlan)
        /\ restorationSteps[k].step = RunPlan[k].step
        /\ restorationSteps[k].goal = RunPlan[k].goal
        /\ \E i \in EventsOf("publish") :
            /\ events[i].step = k - 1
            /\ events[i].data = restorationSteps[k]
            /\ events[i - 1].ev = "return" /\ events[i - 1].op = "edit"
            /\ events[i - 1].step = k - 1
            /\ \A j \in EventsOf("call") : events[j].step >= k => j > i
    /\ \A j \in EventsOf("call") :
        events[j].step >= 1 =>
            \E i \in EventsOf("publish") : i < j /\ events[i].step = events[j].step - 1
    /\ \A i, j \in EventsOf("call") : i < j => events[i].step <= events[j].step

C9_Witness ==
    /\ Len(restorationSteps) = 2
    /\ restorationSteps[1].step = 2
    /\ restorationSteps[2].step = 1

\* The published entries do not outnumber the steps of the run's plan.
WithinPlan ==
    IF HasRunPlan THEN Len(restorationSteps) <= Len(RunPlan) ELSE restorationSteps = <<>>

\* C10: the published entries never outnumber the plan's steps, and every
\* step of a run leaves them as they are or appends exactly one entry.
C10_AppendOnly ==
    /\ WithinPlan
    /\ [][/\ WithinPlan'
          /\ pc # "none" =>
                \/ restorationSteps' = restorationSteps
                \/ /\ Len(restorationSteps') = Len(restorationSteps) + 1
                   /\ SubSeq(restorationSteps', 1, Len(restorationSteps)) = restorationSteps]_vars

C10_Witness ==
    /\ pc = "awaitPrompt"
    /\ Len(restorationSteps) = 1
    /\ index = 1

\* C11: the i-th published entry has step number i.
C11_StepNumbers ==
    \A i \in 1..Len(restorationSteps) : restorationSteps[i].step = i

\* The prompt call resolved with no text, or with text that is empty or
\* white space only.
EmptyOrMalformed(outcome) ==
    /\ outcome[1] = "resolved"
    /\ outcome[2] = Undefined \/ Trim(outcome[2]) = <<>>

\* C12: when the prompt call of a step returns an empty, whitespace-only or
\* malformed response, the run ends 'error', no edit call is issued for that
\* step and no entry is published for it.
C12_EmptyPromptFails ==
    \A i \in EventsOf("return") :
        (events[i].op = "prompt" /\ EmptyOrMalformed(events[i].data)) =>
            /\ status = "error"
            /\ \A j \in EventsOf("call") :
                ~(events[j].op = "edit" /\ events[j].step = events[i].step)
            /\ Len(restorationSteps) <= events[i].step

\* C13: without an API key no run starts: status is never 'planning' (nor
\* 'restoring' or 'done'), no Gateway call is issued, and the click on
\* Restore leaves status 'error' with the configuration error's message.
C13_ConfigErrorBeforeRun ==
    /\ ~apiKey => status = "idle" /\ inflight = <<>>
    /\ [][~apiKey =>
            /\ status' \notin {"planning", "restoring", "done"}
            /\ inflight' = <<>>
            /\ pc' = "none"
            /\ (EventsOf("call"))' = {}
            /\ handleRestore => status' = "error" /\ error' = MsgNoApiKey /\ ~aiRef']_vars

C13_Witness ==
    /\ ~apiKey
    /\ status = "error"
    /\ error = MsgNoApiKey
    /\ events = <<Event("throw", "config", -1, MsgNoApiKey)>>

\* C14: a call of handleRestore with no image selected changes neither
\* status, error message, published entries nor progress message, and
\* issues no Gateway call.
C14_NoImageNoOp ==
    [][(CallRestore /\ imageFile = Null) =>
        UNCHANGED <<status, error, restorationSteps, progressMessage, pc, inflight, events>>]_vars

C14_Witness ==
    /\ imageFile = Null
    /\ userPrompt # <<>>
    /\ ENABLED CallRestore

\* The Gateway calls the run has issued.
CallCount == Cardinality(EventsOf("call"))

\* C15: a run that has entered 'planning' reaches 'done' or 'error', and
\* issues at most 1 + 2N Gateway calls for a plan of N steps.
C15_RunTerminates ==
    /\ isProcessing ~> (status = "done" \/ status = "error")
    /\ [](CallCount <= 1 + 2 * (IF HasRunPlan THEN Len(RunPlan) ELSE 0))

\* The image data a plan step of the run must be given: the uploaded file's
\* (what the planning call was sent) for the first step, the previous
\* step's afterImage for a later one.
ExpectedImageData(k) ==
    IF k = 0
    THEN events[1].data.image.data
    ELSE SplitComma1(restorationSteps[k].afterImage)

\* C16: the prompt request and the edit request of a plan step carry the
\* same image: the original for the first step, the previous step's
\* afterImage for a later step, and never the original once a step is done.
C16_CurrentImage ==
    \A i \in EventsOf("call") :
        events[i].op \in {"prompt", "edit"} =>
            LET k == events[i].step
                image == events[i].data.image
            IN  /\ image.data = ExpectedImageData(k)
                /\ k >= 1 => image.data # ExpectedImageData(0)
                /\ events[i].op = "edit" =>
                       \E j \in EventsOf("call") :
                           /\ j < i
                           /\ events[j].op = "prompt"
                           /\ events[j].step = k
                           /\ events[j].data.image = image

\* C17: the error message is present exactly when status is 'error'.
C17_ErrorIffStatus == (error # Null) <=> (status = "error")

C17_Witness ==
    /\ status = "error"
    /\ error = MsgBadPlan
    /\ \E i \in EventsOf("throw") : events[i].op = "plan"

\* C18: while status is 'planning' or 'restoring' no step changes the
\* selected file or the instruction text, none is a reset from the user
\* interface, and status, error message and published entries are changed
\* by the run's own continuations only.
C18_RunIsolated ==
    [][isProcessing =>
          /\ imageFile' = imageFile
          /\ userPrompt' = userPrompt
          /\ ~ResetStep
          /\ <<status, error, restorationSteps>>' # <<status, error, restorationSteps>> => RunStep]_vars

C18_Witness ==
    /\ status = "restoring"
    /\ restorationSteps # <<>>
    /\ imageFile # Null
    /\ userPrompt # <<>>
    /\ FileInputDisabled
    /\ TextareaDisabled
    /\ ~StartOverShown

\* C19: a present imagePreview is the preview of the selected imageFile, and
\* whenever a run can be started the preview is present.
C19_PreviewOfSelectedFile ==
    /\ imagePreview # Null =>
           /\ imageFile # Null
           /\ imagePreview = ReadAsDataURL(imageFile, TRUE)
    /\ (status = "idle" /\ imageFile # Null) => imagePreview # Null

====
